---- MODULE Spec2Model ----
(***************************************************************************)
(* Model of the batch augmentation driver src/revised_process.py.          *)
(*                                                                         *)
(* One behaviour is a sequence of executions of the script, each in a      *)
(* fresh interpreter, over an unchanged input directory.  Within one       *)
(* execution the actions follow main() statement by statement.  Strings    *)
(* (file names, operator names) are sequences of one-character strings so  *)
(* that os.path.splitext, str.endswith and the f-string of line 80 are     *)
(* computed rather than assumed.                                           *)
(*                                                                         *)
(* Environment: the result directory and the log document may or may not   *)
(* exist beforehand; os.makedirs, the first open of the log and os.listdir *)
(* may raise; a source file whose content is "corrupt" does not decode.    *)
(* An operator of the straug package is a function of (image, magnitude,   *)
(* shared random state) that may raise and that advances the random state. *)
(* A log document that exists is assumed to stay writable.                 *)
(***************************************************************************)
EXTENDS Integers, Sequences, FiniteSets, TLC

(* ---------------------------- bounds ----------------------------------- *)
MaxFiles == 2
MaxMag == 2
MaxOps == 2

(* ---------------------------- strings ---------------------------------- *)
S_PNG == <<".", "p", "n", "g">>
S_TXT == <<".", "t", "x", "t">>

\* str.endswith (line 54)
EndsWith(s, suffix) ==
    /\ Len(s) >= Len(suffix)
    /\ SubSeq(s, Len(s) - Len(suffix) + 1, Len(s)) = suffix

\* str.rfind, 1-based; 0 when the character does not occur
RFind(p, c) ==
    LET hits == {j \in 1..Len(p) : p[j] = c}
    IN IF hits = {} THEN 0 ELSE CHOOSE j \in hits : \A h \in hits : h <= j

\* os.path.splitext(p)[0] (line 79): the extension starts at the last dot,
\* unless every character between the last separator and that dot is a dot
\* (leading dots belong to the root).
SplitextRoot(p) ==
    LET sepIndex == RFind(p, "/")
        dotIndex == RFind(p, ".")
    IN IF /\ dotIndex > sepIndex
          /\ \E j \in (sepIndex + 1)..(dotIndex - 1) : p[j] # "."
       THEN SubSeq(p, 1, dotIndex - 1)
       ELSE p

Digit(d) == <<"0", "1", "2", "3", "4", "5", "6", "7", "8", "9">>[d + 1]

\* decimal formatting of a non-negative integer ({mag} in the f-string)
RECURSIVE Str(_)
Str(n) == IF n < 10 THEN <<Digit(n)>> ELSE Str(n \div 10) \o <<Digit(n % 10)>>

\* OutputFileName without the magnitude
OutputFileName_NoMag(file_name, func_name, m) ==
    SplitextRoot(file_name) \o <<"_">> \o func_name \o S_PNG

\* line 80: f"{base_name}_{func_name}_{mag}.png"
OutputFileName(file_name, func_name, m) ==
    SplitextRoot(file_name) \o <<"_">> \o func_name \o <<"_">> \o Str(m) \o S_PNG

(* ---------------------------- catalog ---------------------------------- *)
\* lines 58-66, the names in declaration order
AllAugmentations == <<
    <<"c","u","r","v","e">>, <<"d","i","s","t","o","r","t">>,
    <<"s","t","r","e","t","c","h">>,
    <<"p","e","r","s","p","e","c","t","i","v","e">>,
    <<"r","o","t","a","t","e">>, <<"s","h","r","i","n","k">>,
    <<"f","o","g">>, <<"s","n","o","w">>, <<"f","r","o","s","t">>,
    <<"r","a","i","n">>, <<"s","h","a","d","o","w">>,
    <<"c","o","n","t","r","a","s","t">>,
    <<"b","r","i","g","h","t","n","e","s","s">>,
    <<"j","p","e","g","c","o","m","p","r","e","s","s","i","o","n">>,
    <<"p","i","x","e","l","a","t","e">>,
    <<"p","o","s","t","e","r","i","z","e">>,
    <<"s","o","l","a","r","i","z","e">>, <<"i","n","v","e","r","t">>,
    <<"e","q","u","a","l","i","z","e">>,
    <<"a","u","t","o","c","o","n","t","r","a","s","t">>,
    <<"s","h","a","r","p","n","e","s","s">>, <<"c","o","l","o","r">>,
    <<"g","a","u","s","s","i","a","n","b","l","u","r">>,
    <<"d","e","f","o","c","u","s","b","l","u","r">>,
    <<"m","o","t","i","o","n","b","l","u","r">>,
    <<"g","l","a","s","s","b","l","u","r">>,
    <<"z","o","o","m","b","l","u","r">> >>

\* the catalog the model iterates: the first MaxOps entries of the list
augmentation_functions ==
    SubSeq(AllAugmentations, 1,
           IF MaxOps < Len(AllAugmentations) THEN MaxOps ELSE Len(AllAugmentations))

\* Magnitudes as range(max_mag, 0, -1)
Magnitudes_Descending(mm) == [j \in 1..(IF mm >= 1 THEN mm ELSE 0) |-> mm - j + 1]

\* Magnitudes as range(0, max_mag + 1)
Magnitudes_FromZero(mm) == [j \in 1..(IF mm >= 0 THEN mm + 1 ELSE 0) |-> j - 1]

\* range(1, max_mag + 1) of line 75, as the sequence it iterates
Magnitudes(mm) == [j \in 1..(IF mm >= 1 THEN mm ELSE 0) |-> j]

(* ------------------------- input universe ------------------------------ *)
\* names os.listdir may return
DirNames == {
    <<"a">> \o S_PNG,
    S_PNG,
    S_PNG \o S_PNG,
    <<"a">> \o S_TXT }

\* content of a source file: an image, or bytes Image.open cannot decode
Contents == {"image", "corrupt"}

\* directory listings: at most MaxFiles entries with distinct names
Listings ==
    UNION { { s \in [1..n -> [name : DirNames, content : Contents]] :
                \A a, b \in 1..n : a # b => s[a].name # s[b].name } :
            n \in 0..MaxFiles }

(* ------------------- external collaborators ---------------------------- *)
\* size of the state space of the process-wide random generator
RngMod == 16

\* np.random.seed(seed): the generator state is a function of the seed
SeedRng(s) == s % RngMod

\* states in which a new interpreter may leave the generator before it is
\* seeded (numpy seeds it from system entropy): two representatives
Unseeded == {1, RngMod - 2}

\* --seed values explored
Seeds == {0, RngMod - 7, RngMod - 3}

\* Image.open(path).resize((width, height)) of line 73
Decodable(content) == content # "corrupt"
OpenResize(content) == [src |-> content]

\* func()(img, mag=mag): a function of (operator, image, magnitude, random
\* state).  The result image is the application itself, so two results are
\* equal exactly when operator, input, magnitude and random state are.
OperatorRaises(func_name, image, m, r) == r = RngMod - 1
OperatorImage(func_name, image, m, r) ==
    [op |-> func_name, of |-> image, mag |-> m, rnd |-> r]
OperatorRng(func_name, image, m, r) == (r + 1) % RngMod

\* augmented_img.save(path) of line 84 raises on an image it cannot encode
SaveRaises(augmented) == augmented.rnd = RngMod - 6

(* ------------------------------ state ---------------------------------- *)
VARIABLES
    seed,         \* args.seed
    max_mag,      \* args.max_mag
    dir_listing,  \* the entries of args.image_dir, in os.listdir order
    run,          \* "first" or "second" execution of the script
    pc,           \* position of the execution in main()
    rng,          \* state of the process-wide numpy generator
    dir_exists,   \* args.result_dir exists
    log_doc,      \* process_log.json: [exists, content]
    files,        \* artifacts in args.result_dir: file name -> image
    png_files,    \* line 54
    idx,          \* position of file_name in png_files (for loop, line 69)
    img,          \* line 73
    fi,           \* position of (func, func_name) in the catalog (line 74)
    mi,           \* position of mag in range(1, max_mag + 1) (line 75)
    augmented_img,\* line 76
    log_data,     \* the module-level list of line 21
    saved,        \* history: the save() calls of this execution that succeeded
    applied,      \* history: the operator calls of this execution
    raised,       \* history: the images (positions) whose try block raised
    counts,       \* history: calls so far of np.random.seed, of json.dump at
                  \* lines 50 and 102, and of func() at line 25
    printed,      \* the completion message of lines 105-106 was printed
    prev          \* history: outcome of the first execution, once it ended

vars == <<seed, max_mag, dir_listing, run, pc, rng, dir_exists, log_doc, files,
          png_files, idx, img, fi, mi, augmented_img, log_data, saved, applied,
          raised, counts, printed, prev>>

inputs == <<seed, max_mag, dir_listing>>

NoImage == [src |-> "none"]
NoAugmented == [op |-> <<>>, of |-> NoImage, mag |-> 0, rnd |-> 0]
NoFiles == [n \in {} |-> NoAugmented]
NoLog == [exists |-> FALSE, content |-> <<>>]
\* a log document left by some earlier, unrelated execution
StaleLog == [exists |-> TRUE,
             content |-> <<[file |-> <<"o", "l", "d">> \o S_PNG, error |-> "stale"]>>]
ZeroCounts == [seedings |-> 0, log_inits |-> 0, log_dumps |-> 0, constructions |-> 0]
NoPrev == [ended |-> "no", log |-> <<>>, files |-> NoFiles]

\* a fresh interpreter: module level (line 21) ran, main() is about to start
FreshProcess ==
    /\ pc = "seed"
    /\ log_data = <<>>
    /\ rng \in Unseeded
    /\ png_files = <<>>
    /\ idx = 0
    /\ img = NoImage
    /\ fi = 0
    /\ mi = 0
    /\ augmented_img = NoAugmented
    /\ saved = <<>>
    /\ applied = <<>>
    /\ raised = {}
    /\ counts = ZeroCounts
    /\ printed = FALSE

Init ==
    /\ seed \in Seeds
    /\ max_mag \in (-1)..MaxMag
    /\ dir_listing \in Listings
    /\ run = "first"
    /\ dir_exists \in BOOLEAN
    /\ log_doc \in (IF dir_exists THEN {NoLog, StaleLog} ELSE {NoLog})
    /\ files = NoFiles
    /\ prev = NoPrev
    /\ FreshProcess

(* ----------------------------- helpers --------------------------------- *)
\* line 54: [f for f in os.listdir(image_dir) if f.endswith('.png')]
PngFiles(listing) ==
    SelectSeq([j \in 1..Len(listing) |-> listing[j].name],
              LAMBDA f : EndsWith(f, S_PNG))

\* the content of the file called file_name in the input directory
ContentOf(file_name) ==
    LET j == CHOOSE j \in 1..Len(dir_listing) : dir_listing[j].name = file_name
    IN dir_listing[j].content

NoUnit == [fi |-> 0, mi |-> 0]

\* lines 74-75: the first (func, mag) of the nested loops, if there is one
FirstUnit ==
    IF Len(augmentation_functions) >= 1 /\ Len(Magnitudes(max_mag)) >= 1
    THEN [fi |-> 1, mi |-> 1]
    ELSE NoUnit

\* NextUnit with the inner loop stopping one magnitude early
NextUnit_OffByOne(f, m) ==
    IF m + 1 < Len(Magnitudes(max_mag)) THEN [fi |-> f, mi |-> m + 1]
    ELSE IF f < Len(augmentation_functions) THEN [fi |-> f + 1, mi |-> 1]
    ELSE NoUnit

\* NextUnit with the two loops nested the other way round
NextUnit_OpsInner(f, m) ==
    IF f < Len(augmentation_functions) THEN [fi |-> f + 1, mi |-> m]
    ELSE IF m < Len(Magnitudes(max_mag)) THEN [fi |-> 1, mi |-> m + 1]
    ELSE NoUnit

\* lines 74-75: the (func, mag) after (f, m); inner loop over mag first
NextUnit(f, m) ==
    IF m < Len(Magnitudes(max_mag)) THEN [fi |-> f, mi |-> m + 1]
    ELSE IF f < Len(augmentation_functions) THEN [fi |-> f + 1, mi |-> 1]
    ELSE NoUnit

\* control moves to unit u of the current image, or to the next image
GoTo(u) ==
    /\ fi' = u.fi
    /\ mi' = u.mi
    /\ pc' = IF u = NoUnit THEN "for_file" ELSE "apply"

\* Except as a handler that also drops the records the image had so far
Except_Rollback(message) ==
    /\ log_data' = Append(SelectSeq(log_data, LAMBDA r : r.file # png_files[idx]),
                          [file |-> png_files[idx], error |-> message])
    /\ raised' = raised \cup {idx}
    /\ pc' = "for_file"

\* Except as a handler that swallows the exception without recording it
Except_Silent(message) ==
    /\ log_data' = log_data
    /\ raised' = raised \cup {idx}
    /\ pc' = "for_file"

\* Except as if there were no try block: the exception ends the execution
Except_Propagates(message) ==
    /\ pc' = "crashed"
    /\ UNCHANGED <<log_data, raised>>

\* lines 92-98: the handler of the per-image try block
Except(message) ==
    /\ log_data' = Append(log_data, [file |-> png_files[idx], error |-> message])
    /\ raised' = raised \cup {idx}
    /\ pc' = "for_file"

\* LogEntry without the output_file key
LogEntry_NoOutputFile(file_name, func_name, m, output_file_name) ==
    [file |-> file_name, function |-> func_name, magnitude |-> m]

\* a record of lines 85-90
LogEntry(file_name, func_name, m, output_file_name) ==
    [file |-> file_name, function |-> func_name, magnitude |-> m,
     output_file |-> output_file_name]

Put(dir, name, image) ==
    [n \in DOMAIN dir \cup {name} |-> IF n = name THEN image ELSE dir[n]]

(* ----------------------------- actions --------------------------------- *)
\* Seed without the call of np.random.seed
Seed_NoSeed ==
    /\ pc = "seed"
    /\ pc' = "makedirs"
    /\ UNCHANGED <<inputs, run, rng, dir_exists, log_doc, files, png_files, idx,
                   img, fi, mi, augmented_img, log_data, saved, applied, raised,
                   counts, printed, prev>>

\* line 39
Seed ==
    /\ pc = "seed"
    /\ rng' = SeedRng(seed)
    /\ counts' = [counts EXCEPT !.seedings = @ + 1]
    /\ pc' = "makedirs"
    /\ UNCHANGED <<inputs, run, dir_exists, log_doc, files, png_files, idx, img,
                   fi, mi, augmented_img, log_data, saved, applied, raised,
                   printed, prev>>

\* lines 42-44; os.makedirs may raise, which ends the execution
MakeDirs ==
    /\ pc = "makedirs"
    /\ IF dir_exists
       THEN pc' = "init_log" /\ UNCHANGED dir_exists
       ELSE \/ dir_exists' = TRUE /\ pc' = "init_log"
            \/ pc' = "crashed" /\ UNCHANGED dir_exists
    /\ UNCHANGED <<inputs, run, rng, log_doc, files, png_files, idx, img, fi, mi,
                   augmented_img, log_data, saved, applied, raised, counts,
                   printed, prev>>

\* lines 47-51; open(..., 'w') may raise, which ends the execution
InitLog ==
    /\ pc = "init_log"
    /\ IF log_doc.exists
       THEN pc' = "listdir" /\ UNCHANGED <<log_doc, counts>>
       ELSE \/ /\ log_doc' = [exists |-> TRUE, content |-> <<>>]
               /\ counts' = [counts EXCEPT !.log_inits = @ + 1]
               /\ pc' = "listdir"
            \/ pc' = "crashed" /\ UNCHANGED <<log_doc, counts>>
    /\ UNCHANGED <<inputs, run, rng, dir_exists, files, png_files, idx, img, fi,
                   mi, augmented_img, log_data, saved, applied, raised, printed,
                   prev>>

\* lines 54-66; os.listdir may raise, which ends the execution
ListDir ==
    /\ pc = "listdir"
    /\ \/ png_files' = PngFiles(dir_listing) /\ pc' = "for_file"
       \/ pc' = "crashed" /\ UNCHANGED png_files
    /\ UNCHANGED <<inputs, run, rng, dir_exists, log_doc, files, idx, img, fi, mi,
                   augmented_img, log_data, saved, applied, raised, counts,
                   printed, prev>>

\* ForFile with np.random.seed called again for every image
ForFile_Reseeds ==
    /\ pc = "for_file"
    /\ IF idx < Len(png_files)
       THEN /\ idx' = idx + 1
            /\ pc' = "open"
            /\ rng' = SeedRng(seed)
            /\ counts' = [counts EXCEPT !.seedings = @ + 1]
       ELSE pc' = "write_log" /\ UNCHANGED <<idx, rng, counts>>
    /\ UNCHANGED <<inputs, run, dir_exists, log_doc, files, png_files, img, fi, mi,
                   augmented_img, log_data, saved, applied, raised, printed, prev>>

\* lines 69-71: the head of the loop over png_files
ForFile ==
    /\ pc = "for_file"
    /\ IF idx < Len(png_files)
       THEN idx' = idx + 1 /\ pc' = "open"
       ELSE pc' = "write_log" /\ UNCHANGED idx
    /\ UNCHANGED <<inputs, run, rng, dir_exists, log_doc, files, png_files, img,
                   fi, mi, augmented_img, log_data, saved, applied, raised,
                   counts, printed, prev>>

\* Open with Image.open called before the try block
Open_OutsideTry ==
    /\ pc = "open"
    /\ LET content == ContentOf(png_files[idx])
       IN IF Decodable(content)
          THEN /\ img' = OpenResize(content)
               /\ GoTo(FirstUnit)
          ELSE /\ pc' = "crashed"
               /\ UNCHANGED <<img, fi, mi>>
    /\ UNCHANGED <<inputs, run, rng, dir_exists, log_doc, files, png_files, idx,
                   augmented_img, log_data, saved, applied, raised, counts,
                   printed, prev>>

\* lines 72-75 (and 92-98 when Image.open or resize raises)
Open ==
    /\ pc = "open"
    /\ LET content == ContentOf(png_files[idx])
       IN IF Decodable(content)
          THEN /\ img' = OpenResize(content)
               /\ GoTo(FirstUnit)
               /\ UNCHANGED <<log_data, raised>>
          ELSE /\ Except("decode")
               /\ UNCHANGED <<img, fi, mi>>
    /\ UNCHANGED <<inputs, run, rng, dir_exists, log_doc, files, png_files, idx,
                   augmented_img, saved, applied, counts, printed, prev>>

\* Apply with operator instances built once, with the catalog
Apply_Prebuilt ==
    /\ pc = "apply"
    /\ LET func_name == augmentation_functions[fi]
           mag == Magnitudes(max_mag)[mi]
       IN /\ applied' = Append(applied, [image |-> idx, fi |-> fi, mag |-> mag])
          /\ rng' = OperatorRng(func_name, img, mag, rng)
          /\ IF OperatorRaises(func_name, img, mag, rng)
             THEN /\ Except("operator")
                  /\ UNCHANGED augmented_img
             ELSE /\ augmented_img' = OperatorImage(func_name, img, mag, rng)
                  /\ pc' = "save"
                  /\ UNCHANGED <<log_data, raised>>
    /\ UNCHANGED <<inputs, run, dir_exists, log_doc, files, png_files, idx, img,
                   fi, mi, saved, printed, prev, counts>>

\* line 76 with apply_augmentation, lines 23-25 (and 92-98 when it raises)
Apply ==
    /\ pc = "apply"
    /\ LET func_name == augmentation_functions[fi]
           mag == Magnitudes(max_mag)[mi]
       IN /\ counts' = [counts EXCEPT !.constructions = @ + 1]
          /\ applied' = Append(applied, [image |-> idx, fi |-> fi, mag |-> mag])
          /\ rng' = OperatorRng(func_name, img, mag, rng)
          /\ IF OperatorRaises(func_name, img, mag, rng)
             THEN /\ Except("operator")
                  /\ UNCHANGED augmented_img
             ELSE /\ augmented_img' = OperatorImage(func_name, img, mag, rng)
                  /\ pc' = "save"
                  /\ UNCHANGED <<log_data, raised>>
    /\ UNCHANGED <<inputs, run, dir_exists, log_doc, files, png_files, idx, img,
                   fi, mi, saved, printed, prev>>

\* Save with the success record appended before the image is saved
Save_LogBeforeSave ==
    /\ pc = "save"
    /\ LET file_name == png_files[idx]
           func_name == augmentation_functions[fi]
           mag == Magnitudes(max_mag)[mi]
           output_file_name == OutputFileName(file_name, func_name, mag)
           entry == LogEntry(file_name, func_name, mag, output_file_name)
       IN IF SaveRaises(augmented_img)
          THEN /\ log_data' = Append(Append(log_data, entry),
                                     [file |-> file_name, error |-> "save"])
               /\ raised' = raised \cup {idx}
               /\ pc' = "for_file"
               /\ UNCHANGED <<files, saved, fi, mi>>
          ELSE /\ files' = Put(files, output_file_name, augmented_img)
               /\ saved' = Append(saved, [name |-> output_file_name, image |-> idx,
                                         fi |-> fi, mag |-> mag])
               /\ log_data' = Append(log_data, entry)
               /\ GoTo(NextUnit(fi, mi))
               /\ UNCHANGED raised
    /\ UNCHANGED <<inputs, run, rng, dir_exists, log_doc, png_files, idx, img,
                   augmented_img, applied, counts, printed, prev>>

\* Save that also rewrites the log document after every record
Save_DumpsLog ==
    /\ pc = "save"
    /\ LET file_name == png_files[idx]
           func_name == augmentation_functions[fi]
           mag == Magnitudes(max_mag)[mi]
           output_file_name == OutputFileName(file_name, func_name, mag)
       IN IF SaveRaises(augmented_img)
          THEN /\ Except("save")
               /\ UNCHANGED <<files, saved, fi, mi, log_doc>>
          ELSE /\ files' = Put(files, output_file_name, augmented_img)
               /\ saved' = Append(saved, [name |-> output_file_name, image |-> idx,
                                         fi |-> fi, mag |-> mag])
               /\ log_data' = Append(log_data,
                                     LogEntry(file_name, func_name, mag, output_file_name))
               /\ log_doc' = [exists |-> TRUE, content |-> log_data']
               /\ GoTo(NextUnit(fi, mi))
               /\ UNCHANGED raised
    /\ UNCHANGED <<inputs, run, rng, dir_exists, png_files, idx, img,
                   augmented_img, applied, counts, printed, prev>>

\* lines 78-91 (and 92-98 when save raises)
Save ==
    /\ pc = "save"
    /\ LET file_name == png_files[idx]
           func_name == augmentation_functions[fi]
           mag == Magnitudes(max_mag)[mi]
           output_file_name == OutputFileName(file_name, func_name, mag)
       IN IF SaveRaises(augmented_img)
          THEN /\ Except("save")
               /\ UNCHANGED <<files, saved, fi, mi>>
          ELSE /\ files' = Put(files, output_file_name, augmented_img)
               /\ saved' = Append(saved, [name |-> output_file_name, image |-> idx,
                                         fi |-> fi, mag |-> mag])
               /\ log_data' = Append(log_data,
                                     LogEntry(file_name, func_name, mag, output_file_name))
               /\ GoTo(NextUnit(fi, mi))
               /\ UNCHANGED raised
    /\ UNCHANGED <<inputs, run, rng, dir_exists, log_doc, png_files, idx, img,
                   augmented_img, applied, counts, printed, prev>>

\* WriteLog with the log document opened for appending
WriteLog_Appends ==
    /\ pc = "write_log"
    /\ log_doc' = [exists |-> TRUE, content |-> log_doc.content \o log_data]
    /\ counts' = [counts EXCEPT !.log_dumps = @ + 1]
    /\ printed' = TRUE
    /\ pc' = "done"
    /\ UNCHANGED <<inputs, run, rng, dir_exists, files, png_files, idx, img, fi,
                   mi, augmented_img, log_data, saved, applied, raised, prev>>

\* WriteLog that writes the log document only when there is a record
WriteLog_IfNonEmpty ==
    /\ pc = "write_log"
    /\ IF log_data # <<>>
       THEN /\ log_doc' = [exists |-> TRUE, content |-> log_data]
            /\ counts' = [counts EXCEPT !.log_dumps = @ + 1]
       ELSE UNCHANGED <<log_doc, counts>>
    /\ printed' = TRUE
    /\ pc' = "done"
    /\ UNCHANGED <<inputs, run, rng, dir_exists, files, png_files, idx, img, fi,
                   mi, augmented_img, log_data, saved, applied, raised, prev>>

\* lines 100-106
WriteLog ==
    /\ pc = "write_log"
    /\ log_doc' = [exists |-> TRUE, content |-> log_data]
    /\ counts' = [counts EXCEPT !.log_dumps = @ + 1]
    /\ printed' = TRUE
    /\ pc' = "done"
    /\ UNCHANGED <<inputs, run, rng, dir_exists, files, png_files, idx, img, fi,
                   mi, augmented_img, log_data, saved, applied, raised, prev>>

\* the script is executed again, in a new interpreter, with the same
\* arguments and input directory; the result directory is kept or was removed
Rerun ==
    /\ run = "first"
    /\ pc \in {"done", "crashed"}
    /\ run' = "second"
    /\ prev' = [ended |-> pc, log |-> log_doc.content, files |-> files]
    /\ \/ UNCHANGED <<dir_exists, log_doc, files>>
       \/ dir_exists' = FALSE /\ log_doc' = NoLog /\ files' = NoFiles
    /\ pc' = "seed"
    /\ log_data' = <<>>
    /\ rng' \in Unseeded
    /\ png_files' = <<>>
    /\ idx' = 0
    /\ img' = NoImage
    /\ fi' = 0
    /\ mi' = 0
    /\ augmented_img' = NoAugmented
    /\ saved' = <<>>
    /\ applied' = <<>>
    /\ raised' = {}
    /\ counts' = ZeroCounts
    /\ printed' = FALSE
    /\ UNCHANGED inputs

\* main() is called a second time in the same interpreter, with the same
\* arguments: its locals are new, the module-level log_data of line 21 and
\* the generator are what the first call left
MainAgain ==
    /\ run = "first"
    /\ pc = "done"
    /\ run' = "again"
    /\ prev' = [ended |-> pc, log |-> log_doc.content, files |-> files]
    /\ pc' = "seed"
    /\ png_files' = <<>>
    /\ idx' = 0
    /\ img' = NoImage
    /\ fi' = 0
    /\ mi' = 0
    /\ augmented_img' = NoAugmented
    /\ saved' = <<>>
    /\ applied' = <<>>
    /\ raised' = {}
    /\ counts' = ZeroCounts
    /\ printed' = FALSE
    /\ UNCHANGED <<inputs, rng, dir_exists, log_doc, files, log_data>>

Next ==
    \/ Seed
    \/ MakeDirs
    \/ InitLog
    \/ ListDir
    \/ ForFile
    \/ Open
    \/ Apply
    \/ Save
    \/ WriteLog
    \/ Rerun

Spec == Init /\ [][Next]_vars

NextReentry ==
    \/ Next
    \/ MainAgain

\* executions of the script, and main() called again by an importing program
SpecReentry == Init /\ [][NextReentry]_vars

\* the interpreter runs a started execution to its end
FairSpec == Spec /\ WF_vars(Next)

(* ------------------------ vocabulary of the claims --------------------- *)
IsSuccess(r) == DOMAIN r = {"file", "function", "magnitude", "output_file"}
IsFailure(r) == DOMAIN r = {"file", "error"}

\* position of x in a sequence without repetitions
PosIn(seq, x) == CHOOSE j \in 1..Len(seq) : seq[j] = x

\* the records of the log about the image at position i of png_files
RecordsOf(log, i) == SelectSeq(log, LAMBDA r : r.file = png_files[i])

\* the image at position i has left the try block of lines 72-98
Processed(i) ==
    \/ i < idx
    \/ i = idx /\ pc \in {"for_file", "write_log", "done"}

\* (image, operator, magnitude) position of a success record
UnitKey(r) ==
    <<PosIn(png_files, r.file), PosIn(augmentation_functions, r.function), r.magnitude>>

LexLess(a, b) ==
    \/ a[1] < b[1]
    \/ a[1] = b[1] /\ a[2] < b[2]
    \/ a[1] = b[1] /\ a[2] = b[2] /\ a[3] < b[3]

(* ------------------------------- claims -------------------------------- *)
\* C1: the success records of the RunLog appear in nested enumeration order:
\* images in discovery order, within an image operators in catalog order,
\* within an operator magnitudes ascending; a success record of a later
\* (image, operator, magnitude) triple never precedes one of an earlier triple.
C1_SuccessRecordsInOrder ==
    \A a, b \in 1..Len(log_data) :
        (a < b /\ IsSuccess(log_data[a]) /\ IsSuccess(log_data[b]))
            => LexLess(UnitKey(log_data[a]), UnitKey(log_data[b]))

\* C1 witness: a finished run whose log holds success records of two images,
\* two operators and two magnitudes
C1_Witness ==
    /\ pc = "done"
    /\ \E a, b, c, d \in 1..Len(log_data) :
        /\ IsSuccess(log_data[a]) /\ IsSuccess(log_data[b])
        /\ IsSuccess(log_data[c]) /\ IsSuccess(log_data[d])
        /\ log_data[a].file # log_data[b].file
        /\ log_data[c].file = log_data[d].file
        /\ log_data[c].function # log_data[d].function
        /\ log_data[a].magnitude # log_data[c].magnitude

\* the step is taken by the handler of lines 92-98 for the current image
Raises == raised' # raised /\ run' = run

\* C2: if an exception occurs while processing an image (open/resize, an
\* operator call or save), the handler appends exactly one failure record
\* {file, error} for that image and changes no Artifact and no earlier
\* record; from then on no WorkUnit of that image is executed and the
\* records of that image stay as they are, one of them a failure record.
C2_FailureEndsImage ==
    [][ /\ Raises =>
            /\ \E e \in {"decode", "operator", "save"} :
                   log_data' = Append(log_data, [file |-> png_files[idx], error |-> e])
            /\ files' = files
            /\ saved' = saved
            /\ pc' = "for_file"
        /\ run' = run =>
            \A i \in raised :
                /\ RecordsOf(log_data', i) = RecordsOf(log_data, i)
                /\ Len(SelectSeq(RecordsOf(log_data, i), IsFailure)) = 1
                /\ SelectSeq(applied', LAMBDA u : u.image = i)
                       = SelectSeq(applied, LAMBDA u : u.image = i)
                /\ SelectSeq(saved', LAMBDA u : u.image = i)
                       = SelectSeq(saved, LAMBDA u : u.image = i)
      ]_vars

\* C2 witness: an image raised after some of its WorkUnits had succeeded,
\* and a later image has been processed since
C2_Witness ==
    \E i \in raised :
        /\ i < idx
        /\ pc = "save"
        /\ \E r \in 1..Len(log_data) :
               IsSuccess(log_data[r]) /\ log_data[r].file = png_files[i]

C4_OutputNamesInjective ==
    \A a, b \in 1..Len(saved) : a # b => saved[a].name # saved[b].name

\* C5: two executions with the same seed, image list, catalog and max_mag
\* that both complete leave the same log document and the same Artifacts
\* (same names, same content).
C5_Deterministic ==
    (run = "second" /\ pc = "done" /\ prev.ended = "done")
        => /\ log_doc.content = prev.log
           /\ files = prev.files

\* C5 witness: both executions completed, with success and failure records
\* and Artifacts produced by a stochastic operator
C5_Witness ==
    /\ run = "second" /\ pc = "done" /\ prev.ended = "done"
    /\ \E a, b \in 1..Len(log_data) :
           IsSuccess(log_data[a]) /\ IsFailure(log_data[b])
    /\ DOMAIN files # {}

\* number of WorkUnits of one image: |catalog| * max_mag
UnitsPerImage == Len(augmentation_functions) * Len(Magnitudes(max_mag))

Successes(log, i) == SelectSeq(RecordsOf(log, i), IsSuccess)
Failures(log, i) == SelectSeq(RecordsOf(log, i), IsFailure)

\* C6 as stated: with a non-empty image list and max_mag >= 1 the final log
\* holds as many records as images were processed, one per image.
C6_OneRecordPerImage ==
    (pc = "done" /\ png_files # <<>> /\ max_mag >= 1)
        => /\ Len(log_data) = Len(png_files)
           /\ \A i \in 1..Len(png_files) : Len(RecordsOf(log_data, i)) = 1

\* C6 amended: with max_mag >= 1 every processed image contributes at least
\* one record; an image that raised contributes exactly one failure record,
\* as its last record, after fewer than |catalog| * max_mag success records;
\* an image that did not raise contributes |catalog| * max_mag success
\* records and no failure record.
C6_RecordsPerImage ==
    max_mag >= 1 =>
        \A i \in 1..Len(png_files) :
            Processed(i) =>
                LET recs == RecordsOf(log_data, i)
                IN /\ Len(recs) >= 1
                   /\ i \in raised =>
                        /\ Len(Failures(log_data, i)) = 1
                        /\ IsFailure(recs[Len(recs)])
                        /\ Len(Successes(log_data, i)) < UnitsPerImage
                   /\ i \notin raised =>
                        /\ Len(Failures(log_data, i)) = 0
                        /\ Len(Successes(log_data, i)) = UnitsPerImage

\* C6 witness: a finished run with one image that produced all its records
\* and one that raised after a success
C6_Witness ==
    /\ pc = "done"
    /\ max_mag >= 1
    /\ \E i, j \in 1..Len(png_files) :
        /\ i \notin raised /\ Len(RecordsOf(log_data, i)) > 1
        /\ j \in raised /\ Len(RecordsOf(log_data, j)) > 1

\* '{source_base}_{op}_{m}.png'
ExpectedName(file_name, op, m) ==
    SplitextRoot(file_name) \o <<"_">> \o op \o <<"_">> \o Str(m) \o S_PNG

\* one success record per (operator, magnitude), operators in catalog order,
\* magnitudes 1..max_mag ascending
ExpectedRecords(file_name) ==
    [j \in 1..UnitsPerImage |->
        LET op == augmentation_functions[((j - 1) \div max_mag) + 1]
            m == ((j - 1) % max_mag) + 1
        IN [file |-> file_name, function |-> op, magnitude |-> m,
            output_file |-> ExpectedName(file_name, op, m)]]

\* C7: an image all of whose WorkUnits succeed gets exactly one success
\* record and one saved Artifact per (operator, magnitude) with magnitude in
\* 1..max_mag, the record of (op, m) naming the source file, op, m and
\* '{source_base}_{op}_{m}.png', and no failure record.
C7_FullImage ==
    \A i \in 1..Len(png_files) :
        (Processed(i) /\ i \notin raised) =>
            LET want == ExpectedRecords(png_files[i])
                mine == SelectSeq(saved, LAMBDA u : u.image = i)
            IN /\ RecordsOf(log_data, i) = want
               /\ Len(mine) = Len(want)
               /\ \A j \in 1..Len(want) :
                    /\ mine[j].name = want[j].output_file
                    /\ mine[j].name \in DOMAIN files
               /\ png_files[i] = <<"a">> \o S_PNG /\ want # <<>> =>
                    want[1].output_file = <<"a", "_", "c", "u", "r", "v", "e", "_", "1">> \o S_PNG

\* C7 witness: the image a.png went through MaxOps * MaxMag WorkUnits
C7_Witness ==
    \E i \in 1..Len(png_files) :
        /\ Processed(i) /\ i \notin raised
        /\ png_files[i] = <<"a">> \o S_PNG
        /\ Len(RecordsOf(log_data, i)) = MaxOps * MaxMag
        /\ MaxOps * MaxMag >= 4

\* the image at position i of png_files cannot be decoded
Corrupt(i) == ~Decodable(ContentOf(png_files[i]))

\* C8: a source image that fails to decode gets exactly one record, of the
\* form {file, error}; no operator is invoked on it and no Artifact is
\* derived from it; the run still completes and writes the log document.
C8_DecodeFailure ==
    /\ [](\A i \in 1..Len(png_files) :
            (Processed(i) /\ Corrupt(i)) =>
                /\ Len(RecordsOf(log_data, i)) = 1
                /\ IsFailure(RecordsOf(log_data, i)[1])
                /\ \A u \in 1..Len(applied) : applied[u].image # i
                /\ \A u \in 1..Len(saved) : saved[u].image # i
                /\ pc # "crashed"
                /\ pc = "done" => log_doc = [exists |-> TRUE, content |-> log_data])
    /\ (pc = "open" /\ Corrupt(idx)) ~> (pc = "done" /\ log_doc.exists)

\* C8 witness: a finished run in which an undecodable image preceded an
\* image that produced Artifacts
C8_Witness ==
    /\ pc = "done"
    /\ \E i \in 1..Len(png_files) : Corrupt(i) /\ i < Len(png_files)
    /\ saved # <<>>

\* C9 as stated: with max_mag < 1 the final log is empty, whatever the
\* images, and nothing is applied or saved.
C9_EmptyLog ==
    (pc = "done" /\ max_mag < 1)
        => /\ log_doc.content = <<>>
           /\ applied = <<>>
           /\ saved = <<>>

\* the failure records of the undecodable images, in discovery order
DecodeFailures ==
    LET bad == SelectSeq(png_files, LAMBDA f : ~Decodable(ContentOf(f)))
    IN [j \in 1..Len(bad) |-> [file |-> bad[j], error |-> "decode"]]

\* C9 amended: with max_mag < 1 no WorkUnit is executed, no success record
\* and no Artifact is produced, and the final log holds exactly one failure
\* record per image that cannot be decoded (it is empty when all decode).
C9_NoWorkUnits ==
    max_mag < 1 =>
        /\ applied = <<>>
        /\ saved = <<>>
        /\ files = NoFiles
        /\ \A r \in 1..Len(log_data) : IsFailure(log_data[r])
        /\ pc = "done" => log_doc = [exists |-> TRUE, content |-> DecodeFailures]

\* C9 witness: max_mag = 0, one image decoded and one did not
C9_Witness ==
    /\ pc = "done"
    /\ max_mag < 1
    /\ Len(png_files) = 2
    /\ Len(log_data) = 1

\* C10: with an empty image list the run still writes the log document, its
\* content is the empty sequence, and no Artifact is created.
C10_EmptyImageList ==
    (pc = "done" /\ png_files = <<>>)
        => /\ log_doc = [exists |-> TRUE, content |-> <<>>]
           /\ counts.log_dumps = 1
           /\ saved = <<>>
           /\ files = NoFiles

\* C10 witness: the input directory holds a file, but no PNG file
C10_Witness ==
    /\ pc = "done"
    /\ png_files = <<>>
    /\ dir_listing # <<>>
    /\ printed

\* C11 as stated: the log document is written at most once in a run, and
\* only after the last image has been processed.
C11_SingleWriteAtEnd ==
    /\ counts.log_inits + counts.log_dumps <= 1
    /\ counts.log_inits + counts.log_dumps >= 1 => pc = "done"

\* C11 amended: the accumulated RunLog is written exactly once in a run that
\* completes, after the last image has been processed, and never before or
\* between images; the only other write of the log document is its
\* initialisation with an empty array, before the images are listed, when
\* the document did not exist.
C11_LogWrites ==
    /\ [](counts.log_dumps = (IF pc = "done" THEN 1 ELSE 0))
    /\ [](counts.log_inits <= 1)
    /\ [][ run' = run =>
            /\ counts'.log_dumps # counts.log_dumps =>
                 /\ pc = "write_log"
                 /\ idx = Len(png_files)
                 /\ \A i \in 1..Len(png_files) : Processed(i)
                 /\ log_doc' = [exists |-> TRUE, content |-> log_data]
            /\ counts'.log_inits # counts.log_inits =>
                 /\ pc = "init_log"
                 /\ ~log_doc.exists
                 /\ log_doc' = [exists |-> TRUE, content |-> <<>>]
                 /\ png_files = <<>> /\ idx = 0
            /\ (counts'.log_dumps = counts.log_dumps /\ counts'.log_inits = counts.log_inits)
                 => log_doc' = log_doc
       ]_vars

\* C11 witness: a finished run over two images that initialised the log
\* document and then dumped a non-empty log
C11_Witness ==
    /\ pc = "done"
    /\ counts.log_inits = 1
    /\ counts.log_dumps = 1
    /\ Len(png_files) >= 2
    /\ Len(log_data) >= 2

\* C12: at completion the log document holds exactly the ordered records
\* accumulated in the run, one per successful save and one per image that
\* raised, whatever the document held before the run.
C12_LogDocumentIsRunLog ==
    pc = "done" =>
        /\ log_doc = [exists |-> TRUE, content |-> log_data]
        /\ Len(log_doc.content) = Len(saved) + Cardinality(raised)
        /\ \A r \in 1..Len(log_doc.content) :
               \E i \in 1..Len(png_files) : log_doc.content[r].file = png_files[i]

\* C12 witness: the log document existed before the run (it was not
\* initialised by it) and the run accumulated records
C12_Witness ==
    /\ pc = "done"
    /\ counts.log_inits = 0
    /\ log_data # <<>>

\* C13: the generator is seeded exactly once per run, as the first step,
\* before any operator invocation, and never again.
C13_SeededOnce ==
    /\ counts.seedings = (IF pc = "seed" THEN 0 ELSE 1)
    /\ applied # <<>> => counts.seedings = 1
    /\ (pc # "seed" /\ applied = <<>>) => rng = SeedRng(seed)

\* C13 witness: a finished run that invoked operators for two images
C13_Witness ==
    /\ pc = "done"
    /\ \E a, b \in 1..Len(applied) : applied[a].image # applied[b].image

\* C14: the execution stops early only because the output directory could
\* not be created or the log document could not be initialised, and then
\* before any image is processed.
C14_OnlySetupFailuresAbort ==
    pc = "crashed" =>
        /\ idx = 0
        /\ applied = <<>>
        /\ ~(dir_exists /\ log_doc.exists)

Names(seq) == {seq[j] : j \in 1..Len(seq)}

WellFormedSuccess(r) ==
    /\ DOMAIN r = {"file", "function", "magnitude", "output_file"}
    /\ r.file \in Names(png_files)
    /\ r.function \in Names(augmentation_functions)
    /\ r.magnitude \in 1..max_mag
    /\ EndsWith(r.output_file, S_PNG)

WellFormedFailure(r) ==
    /\ DOMAIN r = {"file", "error"}
    /\ r.file \in Names(png_files)
    /\ r.error \in {"decode", "operator", "save"}

\* C15: every record of the RunLog is a success record with exactly the
\* keys file, function, magnitude, output_file or a failure record with
\* exactly the keys file, error; the log document written by the run is a
\* sequence of such records.
C15_RecordShapes ==
    /\ \A r \in 1..Len(log_data) :
           WellFormedSuccess(log_data[r]) \/ WellFormedFailure(log_data[r])
    /\ pc = "done" =>
           \A r \in 1..Len(log_doc.content) :
               WellFormedSuccess(log_doc.content[r]) \/ WellFormedFailure(log_doc.content[r])

\* C15 witness: a written log document with a record of either shape
C15_Witness ==
    /\ pc = "done"
    /\ \E a, b \in 1..Len(log_doc.content) :
           WellFormedSuccess(log_doc.content[a]) /\ WellFormedFailure(log_doc.content[b])

\* C16: every step of a run leaves log_data unchanged or appends exactly
\* one record at its end.
C16_AppendOnly ==
    [][ run' = run =>
            \/ log_data' = log_data
            \/ /\ Len(log_data') = Len(log_data) + 1
               /\ SubSeq(log_data', 1, Len(log_data)) = log_data
      ]_vars

\* C16 witness: an image raised when the log already held success records
\* of that image
C16_Witness ==
    /\ pc = "for_file"
    /\ idx \in raised
    /\ Len(RecordsOf(log_data, idx)) >= 2

\* C17: the records of the images follow each other in discovery order, so
\* the records of one image are contiguous; the success records of an image
\* are a prefix of its (operator, magnitude) enumeration, and a failure
\* record, if any, is the single last record of the image.
C17_ContiguousBlocks ==
    /\ \A a, b \in 1..Len(log_data) :
           a < b => PosIn(png_files, log_data[a].file) <= PosIn(png_files, log_data[b].file)
    /\ \A a, b, c \in 1..Len(log_data) :
           (a < b /\ b < c /\ log_data[a].file = log_data[c].file)
               => log_data[b].file = log_data[a].file
    /\ \A i \in 1..Len(png_files) :
           LET recs == RecordsOf(log_data, i)
               want == ExpectedRecords(png_files[i])
               n == Len(Successes(log_data, i))
           IN /\ n <= Len(want)
              /\ \A j \in 1..n : recs[j] = want[j]
              /\ Len(recs) <= n + 1
              /\ Len(recs) = n + 1 => IsFailure(recs[n + 1])

\* C17 witness: two blocks, the first one ending with a failure record
\* after a success record
C17_Witness ==
    /\ Len(png_files) = 2
    /\ Len(RecordsOf(log_data, 1)) >= 2
    /\ 1 \in raised
    /\ Len(RecordsOf(log_data, 2)) >= 2

\* the success records of the log, in order
SuccessRecords == SelectSeq(log_data, IsSuccess)

\* C18: the success records correspond one to one, in order, to the saves
\* that succeeded, each naming a file that is in the output directory; the
\* WorkUnit whose operator call or save raised has no success record, and
\* neither has a WorkUnit whose image is not saved yet.
C18_RecordsFollowSaves ==
    /\ Len(SuccessRecords) = Len(saved)
    /\ \A j \in 1..Len(saved) :
           /\ SuccessRecords[j].output_file = saved[j].name
           /\ SuccessRecords[j].file = png_files[saved[j].image]
           /\ SuccessRecords[j].function = augmentation_functions[saved[j].fi]
           /\ SuccessRecords[j].magnitude = saved[j].mag
           /\ saved[j].name \in DOMAIN files
    /\ \A i \in raised :
           LET mine == SelectSeq(applied, LAMBDA u : u.image = i)
           IN mine # <<>> =>
                ~\E r \in 1..Len(log_data) :
                    /\ IsSuccess(log_data[r])
                    /\ log_data[r].file = png_files[i]
                    /\ log_data[r].function = augmentation_functions[mine[Len(mine)].fi]
                    /\ log_data[r].magnitude = mine[Len(mine)].mag
    /\ pc = "save" =>
           ~\E r \in 1..Len(log_data) :
               /\ IsSuccess(log_data[r])
               /\ log_data[r].file = png_files[idx]
               /\ log_data[r].function = augmentation_functions[fi]
               /\ log_data[r].magnitude = Magnitudes(max_mag)[mi]

\* C18 witness: save raised for an image that already had a saved Artifact
C18_Witness ==
    \E i \in raised :
        /\ log_data[Len(log_data)] = [file |-> png_files[i], error |-> "save"]
        /\ \E j \in 1..Len(saved) : saved[j].image = i

\* C19: every invocation of main starts with an empty log_data, and the
\* document it writes holds only the records of that invocation: one per
\* successful save and one per image that raised.
C19_StartsWithEmptyLog ==
    /\ pc = "seed" => log_data = <<>>
    /\ pc = "done" => Len(log_doc.content) = Len(saved) + Cardinality(raised)

\* C20 as stated: an operator is constructed once, so a run constructs at
\* most as many operators as the catalog has entries.
C20_ConstructedOncePerOperator ==
    counts.constructions <= Len(augmentation_functions)

\* C20 amended: an operator instance is constructed for every operator
\* invocation (func() in apply_augmentation), so a run in which no image
\* raises constructs |images| * |catalog| * max_mag instances.
C20_ConstructedPerCall ==
    /\ counts.constructions = Len(applied)
    /\ (pc = "done" /\ raised = {}) =>
           counts.constructions = Len(png_files) * UnitsPerImage

\* C20 witness: a run over two images, none of which raised, constructed
\* more instances than the catalog has operators
C20_Witness ==
    /\ pc = "done"
    /\ raised = {}
    /\ Len(png_files) = 2
    /\ counts.constructions > Len(augmentation_functions)

====
